---- MODULE Spec2Model ----
(***************************************************************************)
(* The Chrometrace output engine of py-spy (src/src/chrometrace.rs): the   *)
(* event log, the previous-sample map, the thread-id map, and the two      *)
(* operations increment and write.                                         *)
(*                                                                         *)
(* Option<T> is a sequence of length at most one: None is << >>, Some(x)   *)
(* is <<x>>.  A Vec is a sequence; frames are innermost-first, as in       *)
(* StackTrace.frames.  A HashMap is a function whose DOMAIN is its key set.*)
(*                                                                         *)
(* The clock is read by every call and never runs backwards; what it reads *)
(* is otherwise free.  The order in which a HashMap iterates is free too,  *)
(* and fixed until the map is next written.  The casts (as u32, as u64)    *)
(* are on values far below 2^32 here and are not modelled to wrap.         *)
(***************************************************************************)
EXTENDS Integers, Sequences, FiniteSets, TLC

VARIABLES
    events,            \* Chrometrace.events: Vec<Event>
    prev_traces,       \* Chrometrace.prev_traces: HashMap<u64, StackTrace>
    thread_ids,        \* Chrometrace.thread_ids: HashMap<u64, u32>
    show_linenumbers,  \* Chrometrace.show_linenumbers
    elapsed,           \* the latest reading of start_ts.elapsed().as_micros()
    values_order,      \* the order in which prev_traces.values() iterates
    op                 \* the latest call: its name, its argument trace, its
                       \* locals prev_frames and events.len() on entry, its
                       \* result, and what it handed to its sink w

vars == <<events, prev_traces, thread_ids, show_linenumbers, elapsed,
          values_order, op>>

----------------------------------------------------------------------------
(* Bounds of the model. *)

\* The deepest stack the sampler passes
MaxDepth == 2

\* The longest event log, in a session of several threads
MaxEvents == 4

\* The longest event log, in a session of one thread
MaxEventsOne == 6

\* The longest stored log of a session whose writes may fail
MaxEventsFaulty == 3

\* The latest reading of the clock
MaxTime == 1

----------------------------------------------------------------------------
(* Values *)

None == << >>

Some(x) == <<x>>

\* crate::stack_trace::Frame, the fields this file reads
Frame(name, filename, line) == [name |-> name, filename |-> filename, line |-> line]

\* Two frames that differ in line only, and one that differs in name and file
Frames == { Frame("f", "a.py", 1), Frame("f", "a.py", 2), Frame("g", "b.py", 1) }

RECURSIVE SeqsUpTo(_, _)
SeqsUpTo(S, n) ==
    IF n = 0 THEN { << >> }
    ELSE LET shorter == SeqsUpTo(S, n - 1)
         IN  shorter \cup { <<x>> \o s : x \in S, s \in { t \in shorter : Len(t) = n - 1 } }

Stacks == SeqsUpTo(Frames, MaxDepth)

\* crate::stack_trace::StackTrace, the fields this file reads
StackTrace(pid, thread_id, thread_name, frames) ==
    [ pid |-> pid, thread_id |-> thread_id, thread_name |-> thread_name,
      frames |-> frames ]

\* The samples of a session of one thread: every stack, for thread 3
OneThreadTraces == { StackTrace(1, 3, None, frames) : frames \in Stacks }

\* The samples of a session of several threads: every stack for thread 3;
\* a few stacks for thread 70 of another process; and thread 3 seen again,
\* unwound, under another pid and another name.
StackTraces ==
    OneThreadTraces
        \cup { StackTrace(2, 70, Some("w"), frames) :
                  frames \in { << >>, << Frame("g", "b.py", 1) >>,
                               << Frame("f", "a.py", 1), Frame("g", "b.py", 1) >> } }
        \cup { StackTrace(2, 3, Some("w"), << >>) }

----------------------------------------------------------------------------
(* Iterator adapters used by increment *)

Rev(s) == [ i \in 1..Len(s) |-> s[Len(s) + 1 - i] ]

Skip(s, n) == IF n >= Len(s) THEN << >> ELSE SubSeq(s, n + 1, Len(s))

Min(a, b) == IF a <= b THEN a ELSE b

\* Iterator::zip: pairs up to the shorter of the two
Zip(a, b) == [ i \in 1..Min(Len(a), Len(b)) |-> <<a[i], b[i]>> ]

----------------------------------------------------------------------------
(* Chrometrace *)

\* should_merge_frames that never compares the lines
should_merge_frames_by_name(a, b) == a.name = b.name /\ a.filename = b.filename

should_merge_frames(a, b) ==
    /\ a.name = b.name
    /\ a.filename = b.filename
    /\ (~show_linenumbers \/ a.line = b.line)

\* get_thread_id that yields the id assigned last, whatever the thread
get_thread_id_last_assigned(ids, trace) == Cardinality(DOMAIN ids) - 1

get_thread_id(ids, trace) == ids[trace.thread_id]

\* Chrometrace::event, reading the thread-id map ids
event(ids, trace, frame, phase, ts) ==
    [ tid  |-> get_thread_id(ids, trace),
      pid  |-> trace.pid,
      name |-> frame.name,
      cat  |-> "py-spy",
      ph   |-> phase,
      ts   |-> ts,
      args |-> [ filename |-> frame.filename,
                 line     |-> IF show_linenumbers THEN Some(frame.line) ELSE None,
                 name     |-> None ] ]

unwrap_or_default(o) == IF o = None THEN "" ELSE o[1]

\* thread_id.to_string() + ": " + thread_name.as_deref().unwrap_or_default()
ThreadLabel(trace) ==
    ToString(trace.thread_id) \o ": " \o unwrap_or_default(trace.thread_name)

\* record_new_thread_ids without the remapping: the native id, as u32
record_new_thread_ids_native(trace) ==
    IF trace.thread_id \notin DOMAIN thread_ids
    THEN [ t \in DOMAIN thread_ids \cup {trace.thread_id} |->
             IF t = trace.thread_id THEN trace.thread_id ELSE thread_ids[t] ]
    ELSE thread_ids

\* The thread-id map after record_new_thread
record_new_thread_ids(trace) ==
    IF trace.thread_id \notin DOMAIN thread_ids
    THEN [ t \in DOMAIN thread_ids \cup {trace.thread_id} |->
             IF t = trace.thread_id THEN Cardinality(DOMAIN thread_ids)
             ELSE thread_ids[t] ]
    ELSE thread_ids

\* record_new_thread_events without the contains_key test
record_new_thread_events_always(trace) ==
    << [ args |-> [ filename |-> "", line |-> None,
                    name |-> Some(ThreadLabel(trace)) ],
         cat  |-> "py-spy",
         name |-> "thread_name",
         ph   |-> "M",
         pid  |-> trace.pid,
         tid  |-> get_thread_id(record_new_thread_ids(trace), trace),
         ts   |-> 0 ] >>

\* record_new_thread_events that skips a thread that has no name
record_new_thread_events_if_named(trace) ==
    IF trace.thread_id \notin DOMAIN thread_ids /\ trace.thread_name # None
    THEN << [ args |-> [ filename |-> "", line |-> None,
                         name |-> Some(ThreadLabel(trace)) ],
              cat  |-> "py-spy",
              name |-> "thread_name",
              ph   |-> "M",
              pid  |-> trace.pid,
              tid  |-> get_thread_id(record_new_thread_ids(trace), trace),
              ts   |-> 0 ] >>
    ELSE << >>

\* The events record_new_thread pushes
record_new_thread_events(trace) ==
    IF trace.thread_id \notin DOMAIN thread_ids
    THEN << [ args |-> [ filename |-> "", line |-> None,
                         name |-> Some(ThreadLabel(trace)) ],
              cat  |-> "py-spy",
              name |-> "thread_name",
              ph   |-> "M",
              pid  |-> trace.pid,
              tid  |-> get_thread_id(record_new_thread_ids(trace), trace),
              ts   |-> 0 ] >>
    ELSE << >>

\* prev_traces.remove(&trace.thread_id).map(|t| t.frames).unwrap_or_default()
prev_frames_of(trace) ==
    IF trace.thread_id \in DOMAIN prev_traces
    THEN prev_traces[trace.thread_id].frames
    ELSE << >>

\* Iterator::position over the zipped pairs, counted from 0; None is -1
RECURSIVE position(_, _)
position(pairs, k) ==
    IF k > Len(pairs) THEN -1
    ELSE IF ~should_merge_frames(pairs[k][1], pairs[k][2]) THEN k - 1
    ELSE position(pairs, k + 1)

\* new_idx with unwrap_or(0) for unwrap_or(min(..))
new_idx_or_zero(prev_frames, frames) ==
    LET p == position(Zip(Rev(prev_frames), Rev(frames)), 1)
    IN  IF p = -1 THEN 0 ELSE p

\* new_idx without the two rev(): the stacks compared from the innermost end
new_idx_from_leaf(prev_frames, frames) ==
    LET p == position(Zip(prev_frames, frames), 1)
    IN  IF p = -1 THEN Min(Len(prev_frames), Len(frames)) ELSE p

new_idx(prev_frames, frames) ==
    LET p == position(Zip(Rev(prev_frames), Rev(frames)), 1)
    IN  IF p = -1 THEN Min(Len(prev_frames), Len(frames)) ELSE p

\* end_frames without the last rev(): the dropped frames outermost first
end_frames_root_first(prev_frames, idx) == Skip(Rev(prev_frames), idx)

\* The frames of the first loop: prev_frames.iter().rev().skip(new_idx).rev()
end_frames(prev_frames, idx) == Rev(Skip(Rev(prev_frames), idx))

\* begin_frames without the rev(): the new frames innermost first
begin_frames_leaf_first(frames, idx) == Rev(Skip(Rev(frames), idx))

\* The frames of the second loop: trace.frames.iter().rev().skip(new_idx)
begin_frames(frames, idx) == Skip(Rev(frames), idx)

\* events_for with the clock read again for every event pushed
events_for_reading_clock(ids, trace, frames, phase, ts) ==
    [ i \in 1..Len(frames) |-> event(ids, trace, frames[i], phase, ts + i - 1) ]

\* The events one loop pushes: self.event(trace, frame, phase, now) per frame
events_for(ids, trace, frames, phase, ts) ==
    [ i \in 1..Len(frames) |-> event(ids, trace, frames[i], phase, ts) ]

IterationOrders(S) ==
    { s \in [ 1..Cardinality(S) -> S ] : \A x \in S : \E i \in DOMAIN s : s[i] = x }

\* saved_traces that keeps no entry for a thread whose stack is empty
saved_traces_unless_empty(trace) ==
    [ t \in (DOMAIN prev_traces \cup {trace.thread_id})
               \ (IF trace.frames = << >> THEN {trace.thread_id} ELSE {}) |->
        IF t = trace.thread_id THEN trace ELSE prev_traces[t] ]

\* saved_traces that stores only the frames of the sample in an entry the
\* thread already has
saved_traces_frames_only(trace) ==
    [ t \in DOMAIN prev_traces \cup {trace.thread_id} |->
        IF t # trace.thread_id THEN prev_traces[t]
        ELSE IF t \in DOMAIN prev_traces
             THEN [ prev_traces[t] EXCEPT !.frames = trace.frames ]
             ELSE trace ]

\* saved_traces that stores the sample only for a thread that has no entry,
\* as entry(trace.thread_id).or_insert(trace.clone()) would
saved_traces_if_absent(trace) ==
    [ t \in DOMAIN prev_traces \cup {trace.thread_id} |->
        IF t \in DOMAIN prev_traces THEN prev_traces[t] ELSE trace ]

\* saved_traces that files the sample under its pid
saved_traces_by_pid(trace) ==
    [ t \in DOMAIN prev_traces \cup {trace.pid} |->
        IF t = trace.pid THEN trace ELSE prev_traces[t] ]

\* The map after prev_traces.insert(trace.thread_id, trace.clone())
saved_traces(trace) ==
    [ t \in DOMAIN prev_traces \cup {trace.thread_id} |->
        IF t = trace.thread_id THEN trace ELSE prev_traces[t] ]

increment(trace, now) ==
    LET ids  == record_new_thread_ids(trace)
        meta == record_new_thread_events(trace)
        prev == prev_frames_of(trace)
        idx  == new_idx(prev, trace.frames)
        traces == saved_traces(trace)
    IN  /\ elapsed' = now
        /\ thread_ids' = ids
        /\ events' = events \o meta
                            \o events_for(ids, trace, end_frames(prev, idx), "E", now)
                            \o events_for(ids, trace, begin_frames(trace.frames, idx),
                                          "B", now)
        /\ prev_traces' = traces
        /\ values_order' \in IterationOrders(DOMAIN traces)
        /\ op' = [ name |-> "increment", trace |-> Some(trace),
                   prev_frames |-> prev, first |-> Len(events),
                   result |-> "Ok", w |-> << >> ]
        /\ UNCHANGED show_linenumbers

----------------------------------------------------------------------------
(* serde_json::to_string over the derived Serialize of Event and Args *)

JsonString(s) == "\"" \o s \o "\""

JsonNumber(n) == ToString(n)

\* Option<u32> without skip_serializing_if: None is written as null
JsonOptionNumber(o) == IF o = None THEN "null" ELSE JsonNumber(o[1])

\* Args: filename and line are always written, name only when it is Some
SerializeArgs(a) ==
    IF a.name = None
    THEN [ filename |-> JsonString(a.filename), line |-> JsonOptionNumber(a.line) ]
    ELSE [ filename |-> JsonString(a.filename), line |-> JsonOptionNumber(a.line),
           name |-> JsonString(a.name[1]) ]

SerializeEvent(e) ==
    [ args |-> SerializeArgs(e.args),
      cat  |-> JsonString(e.cat),
      name |-> JsonString(e.name),
      ph   |-> JsonString(e.ph),
      pid  |-> JsonNumber(e.pid),
      tid  |-> JsonNumber(e.tid),
      ts   |-> JsonNumber(e.ts) ]

RECURSIVE closing_events_root_first(_, _)
\* closing_events that walks each stored stack from its outermost frame
closing_events_root_first(order, now) ==
    IF order = << >> THEN << >>
    ELSE LET trace == prev_traces[Head(order)]
         IN  events_for(thread_ids, trace, Rev(trace.frames), "E", now)
                 \o closing_events_root_first(Tail(order), now)

RECURSIVE closing_events(_, _)
\* The loop of write over prev_traces.values(), in the map's iteration order
closing_events(order, now) ==
    IF order = << >> THEN << >>
    ELSE LET trace == prev_traces[Head(order)]
         IN  events_for(thread_ids, trace, trace.frames, "E", now)
                 \o closing_events(Tail(order), now)

\* The vector write serializes
write_events(now) == events \o closing_events(values_order, now)

\* serde_json::to_string(&events): the array, element by element
to_string(vec) == [ i \in 1..Len(vec) |-> SerializeEvent(vec[i]) ]

\* What can go wrong in one call of write: nothing; serde_json::to_string
\* returns Err; the sink returns Err for the array; the sink returns Err for
\* the newline that follows it
Faults == { "none", "to_string", "array", "newline" }

\* The pieces the sink accepted: writeln!(w, "{}", s) hands it s, then "\n",
\* and stops at the first Err
handed(text, fault) ==
    CASE fault = "none" -> << text, "\n" >>
      [] fault = "newline" -> << text >>
      [] OTHER -> << >>

\* write that consumes the open stacks it closes
write_draining(now, fault) ==
    /\ elapsed' = now
    /\ op' = [ name |-> "write", trace |-> None,
               prev_frames |-> << >>, first |-> Len(events),
               result |-> IF fault = "none" THEN "Ok" ELSE "Err",
               w |-> handed(to_string(write_events(now)), fault) ]
    /\ prev_traces' = [ t \in DOMAIN prev_traces |->
                          [ prev_traces[t] EXCEPT !.frames = << >> ] ]
    /\ UNCHANGED <<events, thread_ids, show_linenumbers, values_order>>

\* write that hands the array and the newline again when the sink returned
\* Err, and reports success
write_retrying(now, fault) ==
    /\ elapsed' = now
    /\ op' = [ name |-> "write", trace |-> None,
               prev_frames |-> << >>, first |-> Len(events),
               result |-> IF fault = "to_string" THEN "Err" ELSE "Ok",
               w |-> IF fault = "to_string" THEN << >>
                     ELSE handed(to_string(write_events(now)), fault)
                              \o (IF fault = "none" THEN << >>
                                  ELSE << to_string(write_events(now)), "\n" >>) ]
    /\ UNCHANGED <<events, prev_traces, thread_ids, show_linenumbers, values_order>>

write(now, fault) ==
    /\ elapsed' = now
    /\ op' = [ name |-> "write", trace |-> None,
               prev_frames |-> << >>, first |-> Len(events),
               result |-> IF fault = "none" THEN "Ok" ELSE "Err",
               w |-> handed(to_string(write_events(now)), fault) ]
    /\ UNCHANGED <<events, prev_traces, thread_ids, show_linenumbers, values_order>>

----------------------------------------------------------------------------
(* The engine driven by its caller *)

\* Chrometrace::new
Init ==
    /\ events = << >>
    /\ prev_traces = << >>
    /\ thread_ids = << >>
    /\ show_linenumbers \in BOOLEAN
    /\ elapsed = 0
    /\ values_order = << >>
    /\ op = [ name |-> "new", trace |-> None, prev_frames |-> << >>, first |-> 0,
              result |-> "Ok", w |-> << >> ]

\* The events one increment pushes
pushed(trace) ==
    LET prev == prev_frames_of(trace)
        idx  == new_idx(prev, trace.frames)
    IN  Len(record_new_thread_events(trace)) + (Len(prev) - idx)
            + (Len(trace.frames) - idx)

Increment ==
    \E trace \in StackTraces :
        /\ Len(events) + pushed(trace) <= MaxEvents
        /\ \E now \in elapsed..MaxTime : increment(trace, now)

IncrementOne ==
    \E trace \in OneThreadTraces :
        /\ Len(events) + pushed(trace) <= MaxEventsOne
        /\ \E now \in elapsed..MaxTime : increment(trace, now)

\* write to a sink that accepts everything
Write == \E now \in elapsed..MaxTime : write(now, "none")

\* write to a sink that may fail
WriteFaulty == \E now \in elapsed..MaxTime : \E fault \in Faults : write(now, fault)

Next == Increment \/ Write

\* A session of several threads
Spec == Init /\ [][Next]_vars

NextOne == IncrementOne \/ Write

\* A session of one thread, with a longer log
SpecOne == Init /\ [][NextOne]_vars

IncrementFaulty ==
    \E trace \in StackTraces :
        /\ Len(events) + pushed(trace) <= MaxEventsFaulty
        /\ \E now \in elapsed..MaxTime : increment(trace, now)

NextFaulty == IncrementFaulty \/ WriteFaulty

\* A session of several threads whose writes may fail
SpecFaulty == Init /\ [][NextFaulty]_vars

----------------------------------------------------------------------------
(* Reading a log of Begin and End events as brackets *)

\* The latest call was an increment
Incremented == op.name = "increment"

\* The latest call was a write that returned Ok
Written == op.name = "write" /\ op.result = "Ok"

\* The latest call was a write that returned Err
WriteFailed == op.name = "write" /\ op.result = "Err"

\* The sample passed to the latest increment
Sample == op.trace[1]

\* The events the latest call pushed onto the log
Pushed == SubSeq(events, op.first + 1, Len(events))

\* The latest increment was for a thread that an earlier call had recorded:
\* the log as the call found it holds a Metadata event of the thread's tid
SeenBefore ==
    /\ Incremented
    /\ \E i \in 1..op.first :
           events[i].ph = "M" /\ events[i].tid = thread_ids[Sample.thread_id]

IsBeginEnd(e) == e.ph \in {"B", "E"}

MapSeq(s, F(_)) == [ i \in 1..Len(s) |-> F(s[i]) ]

\* The Begin and End events of log that carry tid, in log order
OfTid(log, tid) ==
    LET Mine(e) == IsBeginEnd(e) /\ e.tid = tid
    IN  SelectSeq(log, Mine)

\* The remapped ids the log mentions
Tids(log) == { log[i].tid : i \in DOMAIN log }

RECURSIVE Replay(_, _, _)
\* Runs brackets, a sequence of [begin, key, ts], from index k on: a Begin
\* opens; an End must close the most recently opened Begin still open, carry
\* its key and not precede it in time.  Yields whether every End did, and the
\* Begins left open, first-opened first.
Replay(brackets, k, open) ==
    IF k > Len(brackets) THEN [ ok |-> TRUE, open |-> open ]
    ELSE IF brackets[k].begin THEN Replay(brackets, k + 1, Append(open, brackets[k]))
    ELSE IF /\ open # << >>
            /\ open[Len(open)].key = brackets[k].key
            /\ open[Len(open)].ts <= brackets[k].ts
         THEN Replay(brackets, k + 1, SubSeq(open, 1, Len(open) - 1))
         ELSE [ ok |-> FALSE, open |-> open ]

\* The brackets of a thread in the stored log, keyed by name and filename
FunctionBracket(e) ==
    [ begin |-> e.ph = "B", key |-> <<e.name, e.args.filename>>, ts |-> 0 ]

Nesting(log, tid) == Replay(MapSeq(OfTid(log, tid), FunctionBracket), 1, << >>)

\* C1: after any sequence of increment calls, the Begin/End events of each
\* remapped tid, in log order, are properly nested: every End closes the most
\* recently opened still-open Begin of that tid, with the same name and
\* filename, and no End appears when the tid has no open Begin.
C1_ProperlyNested == \A tid \in Tids(events) : Nesting(events, tid).ok

\* C1 witness: a Begin of one tid, then an event of another tid, then the End
\* that closes that Begin.
C1_Witness ==
    \E i, j, k \in DOMAIN events :
        /\ i < j /\ j < k
        /\ events[i].ph = "B" /\ events[k].ph = "E"
        /\ events[k].tid = events[i].tid
        /\ events[j].tid # events[i].tid
        /\ FunctionBracket(events[i]).key = FunctionBracket(events[k]).key

----------------------------------------------------------------------------
(* Reading what write handed to the sink *)

\* The array of the latest write, as serialized
Output == op.w[1]

\* The number a JSON number text stands for
ParseNumber(text) == CHOOSE n \in 0..MaxTime : JsonNumber(n) = text

IsBeginJson(j) == j.ph = JsonString("B")

IsEndJson(j) == j.ph = JsonString("E")

\* What the claim calls corresponding: the same pid, tid, name and filename
Interval(j) == <<j.pid, j.tid, j.name, j.args.filename>>

Count(seq, Test(_)) == Cardinality({ i \in DOMAIN seq : Test(seq[i]) })

\* C2: in the output of write, every Begin has exactly one corresponding End,
\* which carries the same pid, tid, name and filename and a timestamp not
\* before the Begin's: the Begins and the Ends of each (pid, tid, name,
\* filename) are equally many, and each Begin is followed by such an End.
C2_EveryBeginHasItsEnd ==
    Written =>
        /\ \A i \in DOMAIN Output :
               IsBeginJson(Output[i]) =>
                   \E k \in DOMAIN Output :
                       /\ i < k
                       /\ IsEndJson(Output[k])
                       /\ Interval(Output[k]) = Interval(Output[i])
                       /\ ParseNumber(Output[k].ts) >= ParseNumber(Output[i].ts)
        /\ \A i \in DOMAIN Output :
               LET SameBegin(j) == IsBeginJson(j) /\ Interval(j) = Interval(Output[i])
                   SameEnd(j) == IsEndJson(j) /\ Interval(j) = Interval(Output[i])
               IN  Count(Output, SameBegin) = Count(Output, SameEnd)

----------------------------------------------------------------------------
(* The previous-sample map *)

\* The Begin and End events the latest call pushed
PushedBeginEnd == SelectSeq(Pushed, IsBeginEnd)

\* An event's phase, function and line
Shape(e) == <<e.ph, e.name, e.args.filename, e.args.line>>

\* The shapes of the events of one phase for frames, in the order of frames
Shapes(phase, frames) ==
    [ i \in 1..Len(frames) |->
        << phase, frames[i].name, frames[i].filename,
           IF show_linenumbers THEN Some(frames[i].line) ELSE None >> ]

\* The Begins of thread_id still open in the stored log, first-opened first
OpenStack(thread_id) == Nesting(events, thread_ids[thread_id]).open

\* C3 as claimed: the previous-sample map has an entry for a thread exactly
\* when that thread has an open, unterminated stack; after an increment with
\* an empty frames list the thread has no entry.
C3_EntryIffOpenStack ==
    /\ \A t \in DOMAIN thread_ids :
           t \in DOMAIN prev_traces <=> OpenStack(t) # << >>
    /\ (Incremented /\ Sample.frames = << >>) =>
           Sample.thread_id \notin DOMAIN prev_traces

\* C3 as amended: the previous-sample map has an entry for exactly the threads
\* that were passed to increment; a thread has an open, unterminated stack
\* exactly when the frames of its entry are not empty, one open Begin per
\* frame; after an increment with an empty frames list every previous frame
\* of the thread is Ended, leaf to root, nothing is Begun, and the thread's
\* entry stays in the map with an empty frames list.
C3_EntryPerSeenThread ==
    /\ DOMAIN prev_traces = DOMAIN thread_ids
    /\ \A t \in DOMAIN prev_traces :
           Len(OpenStack(t)) = Len(prev_traces[t].frames)
    /\ (Incremented /\ Sample.frames = << >>) =>
           /\ MapSeq(PushedBeginEnd, Shape) = Shapes("E", op.prev_frames)
           /\ Sample.thread_id \in DOMAIN prev_traces
           /\ prev_traces[Sample.thread_id].frames = << >>

\* C3 witness: a thread with open frames was passed an empty frames list
C3_Witness ==
    /\ Incremented
    /\ Sample.frames = << >>
    /\ op.prev_frames # << >>
    /\ Sample.thread_id \in DOMAIN prev_traces

----------------------------------------------------------------------------
(* The thread-id map *)

Known == DOMAIN thread_ids

\* The remapped ids are exactly 0..n-1 for n known threads, none shared
Dense ==
    /\ { thread_ids[t] : t \in Known } = 0..(Cardinality(Known) - 1)
    /\ \A t, u \in Known : thread_ids[t] = thread_ids[u] => t = u

\* One call: a known thread stays known and keeps its id; a thread that
\* becomes known gets the number of threads known before it; the thread an
\* increment was called for is known afterwards.
AssignedInOrder ==
    /\ \A t \in Known : t \in Known' /\ thread_ids'[t] = thread_ids[t]
    /\ \A t \in Known' \ Known : thread_ids'[t] = Cardinality(Known)
    /\ Incremented' => Sample'.thread_id \in Known'
    /\ Written' => Known' = Known

\* C4: thread-id remapping is dense, first-seen-ordered and stable: the k-th
\* distinct native thread_id passed to increment, k from 0, gets remapped id
\* k whatever its magnitude; the assigned ids are exactly 0..n-1 for n known
\* threads, no two threads sharing one; and an assigned id never changes under
\* a later increment or write.
C4_DenseFirstSeenStable == []Dense /\ [][AssignedInOrder]_vars

\* C4 witness: the larger native id was seen first and got 0, the smaller 1
C4_Witness == Known = {3, 70} /\ thread_ids[70] = 0 /\ thread_ids[3] = 1

----------------------------------------------------------------------------
(* Metadata events *)

\* The places in the stored log of the Metadata events carrying tid
MetadataOf(tid) == { i \in DOMAIN events : events[i].ph = "M" /\ events[i].tid = tid }

\* The text "<thread_id>: <thread_name or empty string>"
Label(thread_id, thread_name) ==
    ToString(thread_id) \o ": " \o (IF thread_name = None THEN "" ELSE thread_name[1])

\* The names under which the sampler may pass a thread
NamesOf(thread_id) ==
    { tr.thread_name : tr \in { x \in StackTraces : x.thread_id = thread_id } }

\* C5: the log holds exactly one Metadata event per distinct thread_id ever
\* passed to increment; it is pushed by the first increment for that thread,
\* before anything else that call pushes, with ph "M", name "thread_name",
\* ts 0, the thread's remapped tid, args.name "<thread_id>: <thread_name or
\* empty string>", an empty filename and no line; a later increment for the
\* thread pushes no Metadata event, even if its thread_name differs.
C5_OneMetadataPerThread ==
    /\ \A i \in DOMAIN events :
           events[i].ph = "M" => \E t \in Known : events[i].tid = thread_ids[t]
    /\ \A t \in Known :
           /\ Cardinality(MetadataOf(thread_ids[t])) = 1
           /\ \A i \in MetadataOf(thread_ids[t]) :
                  /\ events[i].name = "thread_name"
                  /\ events[i].ts = 0
                  /\ events[i].args.filename = ""
                  /\ events[i].args.line = None
                  /\ \E n \in NamesOf(t) : events[i].args.name = Some(Label(t, n))
    /\ Incremented => Sample.thread_id \in Known
    /\ (Incremented /\ ~SeenBefore) =>
           /\ MetadataOf(thread_ids[Sample.thread_id]) = { op.first + 1 }
           /\ events[op.first + 1].args.name
                  = Some(Label(Sample.thread_id, Sample.thread_name))
    /\ (Incremented /\ SeenBefore) =>
           \A i \in DOMAIN Pushed : Pushed[i].ph # "M"

\* C5 witness: a thread recorded under one name is passed again under another
C5_Witness ==
    /\ SeenBefore
    /\ \E i \in MetadataOf(thread_ids[Sample.thread_id]) :
           events[i].args.name # Some(Label(Sample.thread_id, Sample.thread_name))

----------------------------------------------------------------------------
(* The diff of two consecutive samples of a thread *)

\* The frame of stack at depth d, the outermost frame being at depth 1
AtDepth(stack, d) == stack[Len(stack) + 1 - d]

SameNameAndFile(a, b) == a.name = b.name /\ a.filename = b.filename

\* The depths both stacks have
SharedDepths(previous, current) == 1..Min(Len(previous), Len(current))

\* Same names and filenames position by position, and same lines when
\* show_linenumbers is on
Identical(previous, current) ==
    /\ Len(previous) = Len(current)
    /\ \A i \in 1..Len(previous) :
           /\ SameNameAndFile(previous[i], current[i])
           /\ show_linenumbers => previous[i].line = current[i].line

\* C6: an increment for an already-seen thread whose frames are identical to
\* the thread's previous sample (names and filenames position by position,
\* and lines when show_linenumbers is on) pushes no event.
C6_IdenticalSamplePushesNothing ==
    (SeenBefore /\ Identical(op.prev_frames, Sample.frames)) => Pushed = << >>

\* C6 witness: a thread with two open frames was passed the same two frames
C6_Witness ==
    /\ SeenBefore
    /\ Len(Sample.frames) = 2
    /\ Identical(op.prev_frames, Sample.frames)

\* No frame equal to the frame at the same depth of the other stack
Disjoint(previous, current) ==
    \A d \in SharedDepths(previous, current) :
        ~ /\ SameNameAndFile(AtDepth(previous, d), AtDepth(current, d))
          /\ show_linenumbers => AtDepth(previous, d).line = AtDepth(current, d).line

\* C7: when the previous and the current stack of an already-seen thread are
\* completely disjoint, increment pushes exactly len(previous) + len(current)
\* events: an End for every previous frame, leaf to root, and then a Begin for
\* every current frame, root to leaf.
C7_DisjointEndsAllBeginsAll ==
    (SeenBefore /\ Disjoint(op.prev_frames, Sample.frames)) =>
        /\ Len(Pushed) = Len(op.prev_frames) + Len(Sample.frames)
        /\ MapSeq(Pushed, Shape)
               = Shapes("E", op.prev_frames) \o Shapes("B", Rev(Sample.frames))

\* C7 witness: two open frames replaced by a stack that shares none of them
C7_Witness ==
    /\ SeenBefore
    /\ Len(op.prev_frames) = 2
    /\ Len(Sample.frames) >= 1
    /\ Disjoint(op.prev_frames, Sample.frames)

\* The End events, and the Begin events, the latest call pushed
PushedEnds == LET IsEnd(e) == e.ph = "E" IN SelectSeq(Pushed, IsEnd)

PushedBegins == LET IsBegin(e) == e.ph = "B" IN SelectSeq(Pushed, IsBegin)

\* The frames of stack at depth d and beneath it, innermost first
FromDepth(stack, d) == SubSeq(stack, 1, Len(stack) + 1 - d)

\* The latest increment Ended the previous frames at depth d and beneath, and
\* Begun the current frames at depth d and beneath
Restarted(d) ==
    /\ Pushed = PushedEnds \o PushedBegins
    /\ Len(PushedEnds) >= Len(FromDepth(op.prev_frames, d))
    /\ Len(PushedBegins) >= Len(FromDepth(Sample.frames, d))
    /\ MapSeq(PushedEnds, Shape)
           = Shapes("E", SubSeq(op.prev_frames, 1, Len(PushedEnds)))
    /\ MapSeq(PushedBegins, Shape)
           = Shapes("B", Rev(SubSeq(Sample.frames, 1, Len(PushedBegins))))

\* C8: frame equality follows show_linenumbers.  Off: two consecutive samples
\* of a thread whose frames differ only in line number are equal, and
\* increment pushes nothing.  On: a frame whose line differs from the frame
\* at the same depth of the previous sample is distinct, so the previous frame
\* and every frame beneath it are Ended and the current frames from that
\* depth on are Begun.
C8_EqualityFollowsShowLinenumbers ==
    SeenBefore =>
        /\ ( /\ ~show_linenumbers
             /\ Len(op.prev_frames) = Len(Sample.frames)
             /\ \A i \in 1..Len(Sample.frames) :
                    SameNameAndFile(op.prev_frames[i], Sample.frames[i]) )
               => Pushed = << >>
        /\ show_linenumbers =>
               \A d \in SharedDepths(op.prev_frames, Sample.frames) :
                   AtDepth(op.prev_frames, d).line # AtDepth(Sample.frames, d).line
                       => Restarted(d)

\* C8 witness: with show_linenumbers on, the outermost of two open frames
\* comes back on another line
C8_Witness ==
    /\ SeenBefore
    /\ show_linenumbers
    /\ Len(op.prev_frames) = 2
    /\ Len(Sample.frames) >= 1
    /\ SameNameAndFile(AtDepth(op.prev_frames, 1), AtDepth(Sample.frames, 1))
    /\ AtDepth(op.prev_frames, 1).line # AtDepth(Sample.frames, 1).line

\* With show_linenumbers off, open frames come back on other lines
C8_WitnessOff ==
    /\ SeenBefore
    /\ ~show_linenumbers
    /\ Len(op.prev_frames) = 2
    /\ Len(Sample.frames) = 2
    /\ \A i \in 1..2 : SameNameAndFile(op.prev_frames[i], Sample.frames[i])
    /\ \E i \in 1..2 : op.prev_frames[i].line # Sample.frames[i].line

----------------------------------------------------------------------------
(* The line field of the output *)

\* The object written for args has a line field
HasLine(j) == "line" \in DOMAIN j.args

\* C9: with show_linenumbers off, no event of the output of write contains a
\* line field (the field is absent, not present with a null value); with
\* show_linenumbers on, every Begin and End event carries the frame's line.
C9_LineFieldOnlyWhenPresent ==
    Written =>
        \A i \in DOMAIN Output :
            /\ ~show_linenumbers => ~HasLine(Output[i])
            /\ (show_linenumbers /\ (IsBeginJson(Output[i]) \/ IsEndJson(Output[i])))
                   => (HasLine(Output[i]) /\ Output[i].args.line # "null")

\* What the code does: every event of the output has a line field; it is
\* null in every Metadata event and, with show_linenumbers off, in every
\* Begin and End event
C9_LineFieldAlwaysWritten ==
    Written =>
        \A i \in DOMAIN Output :
            /\ HasLine(Output[i])
            /\ Output[i].args.line = "null"
                   <=> (~show_linenumbers \/ Output[i].ph = JsonString("M"))

----------------------------------------------------------------------------
(* write and the engine state *)

\* An object of the output with its timestamp blanked
SansTs(j) == [ j EXCEPT !.ts = "" ]

\* The output of one write call, seen from the state before it
WriteIsReadOnly ==
    /\ UNCHANGED <<events, prev_traces, thread_ids, show_linenumbers, values_order>>
    /\ Len(Output') >= Len(events)
    /\ \A i \in 1..Len(events) : Output'[i] = SerializeEvent(events[i])
    /\ \A i \in (Len(events) + 1)..Len(Output') : IsEndJson(Output'[i])

\* A write call that follows a write call, with no increment in between
RepeatedWriteDiffersInTs ==
    /\ Len(Output') = Len(Output)
    /\ \A i \in 1..Len(Output) :
           /\ SansTs(Output'[i]) = SansTs(Output[i])
           /\ ParseNumber(Output'[i].ts) >= ParseNumber(Output[i].ts)
           /\ i <= Len(events) => Output'[i] = Output[i]

\* C10: write is read-only on engine state: it leaves the stored event log,
\* the previous-sample map and the thread-id map unchanged, so it may be
\* called any number of times; every call's output starts with the stored
\* events; and repeated calls differ only in the timestamp of the synthesized
\* closing End events, which does not decrease from one call to the next.
C10_WriteIsReadOnly ==
    [][ Written' => /\ WriteIsReadOnly
                    /\ Written => RepeatedWriteDiffersInTs ]_vars

\* C10 witness: a write that closed open frames at a later time than they
\* were opened
C10_Witness ==
    /\ Written
    /\ Len(Output) > Len(events)
    /\ \E i \in DOMAIN events :
           events[i].ph = "B" /\ events[i].ts < ParseNumber(Output[Len(Output)].ts)

----------------------------------------------------------------------------
(* Pure push and pure pop *)

\* current is previous with k more frames at the leaf end
PurePush(previous, current, k) ==
    /\ Len(current) = Len(previous) + k
    /\ Identical(previous, SubSeq(current, k + 1, Len(current)))

\* current is previous without its k innermost frames
PurePop(previous, current, k) ==
    /\ Len(previous) = Len(current) + k
    /\ Identical(SubSeq(previous, k + 1, Len(previous)), current)

\* The Begin and End objects of the latest output that carry tid, in order
OutputOfTid(tid) ==
    LET Mine(j) == (IsBeginJson(j) \/ IsEndJson(j)) /\ j.tid = JsonNumber(tid)
    IN  SelectSeq(Output, Mine)

\* The phase, function and line of an object of the output
OutShape(j) == <<j.ph, j.name, j.args.filename, j.args.line>>

\* A shape as serde_json writes it
JsonShape(s) ==
    <<JsonString(s[1]), JsonString(s[2]), JsonString(s[3]), JsonOptionNumber(s[4])>>

\* The stored log of thread_id is Begin(a), Begin(b), End(b)
PushedThenPopped(thread_id, a, b) ==
    MapSeq(OfTid(events, thread_ids[thread_id]), Shape)
        = Shapes("B", <<a, b>>) \o Shapes("E", <<b>>)

\* C11: pure push and pure pop are minimal.  If the sample of a thread is its
\* previous stack with k more leaf frames, increment appends exactly k Begin
\* events (the new frames, outermost first) and no End; if it is the previous
\* stack without its k innermost frames, increment appends exactly k End
\* events (the removed frames, innermost first) and no Begin.  So after the
\* samples [A], [B,A], [A] the log of the thread is Begin(A), Begin(B), End(B)
\* and write yields for it exactly Begin(A), Begin(B), End(B), End(A).
C11_PurePushPopMinimal ==
    /\ Incremented =>
           \A k \in 0..MaxDepth :
               /\ PurePush(op.prev_frames, Sample.frames, k) =>
                      /\ PushedEnds = << >>
                      /\ MapSeq(PushedBegins, Shape)
                             = Shapes("B", Rev(SubSeq(Sample.frames, 1, k)))
               /\ PurePop(op.prev_frames, Sample.frames, k) =>
                      /\ PushedBegins = << >>
                      /\ MapSeq(PushedEnds, Shape)
                             = Shapes("E", SubSeq(op.prev_frames, 1, k))
    /\ Written =>
           \A t \in Known : \A a, b \in Frames :
               PushedThenPopped(t, a, b) =>
                   MapSeq(OutputOfTid(thread_ids[t]), OutShape)
                       = MapSeq(Shapes("B", <<a, b>>) \o Shapes("E", <<b, a>>),
                                JsonShape)

\* C11 witness: the write that follows the samples [A], [B,A], [A] of a thread
C11_Witness ==
    /\ Written
    /\ \E t \in Known : \E a, b \in Frames :
           /\ PushedThenPopped(t, a, b)
           /\ Len(OutputOfTid(thread_ids[t])) = 4

\* A thread with two open frames was passed the outer one alone
C11_WitnessPop ==
    /\ SeenBefore
    /\ Len(op.prev_frames) = 2
    /\ PurePop(op.prev_frames, Sample.frames, 1)

\* A thread with one open frame was passed it under one new frame
C11_WitnessPush ==
    /\ SeenBefore
    /\ Len(op.prev_frames) = 1
    /\ PurePush(op.prev_frames, Sample.frames, 1)

----------------------------------------------------------------------------
(* The general diff *)

\* The engine's frame equality
FrameEqual(a, b) ==
    /\ SameNameAndFile(a, b)
    /\ show_linenumbers => a.line = b.line

\* The number of leading frames, counted from the outermost end, that are
\* pairwise equal before the first mismatch or before either stack ends
SharedDepth(previous, current) ==
    CHOOSE d \in 0..Min(Len(previous), Len(current)) :
        /\ \A i \in 1..d : FrameEqual(AtDepth(previous, i), AtDepth(current, i))
        /\ d < Min(Len(previous), Len(current)) =>
               ~FrameEqual(AtDepth(previous, d + 1), AtDepth(current, d + 1))

\* The Metadata events the latest call pushed
PushedMetadata == LET IsMetadata(e) == e.ph = "M" IN SelectSeq(Pushed, IsMetadata)

\* C12: for every previous stack P and current stack C of a thread, of any
\* lengths, increment appends, after any Metadata event, exactly the End
\* events of the frames of P beyond the shared depth d, leaf to root, and then
\* the Begin events of the frames of C beyond d, root to leaf; d is the number
\* of frames, counted from the outermost end, that are pairwise equal under
\* frame equality before the first mismatch or before either stack ends.
\* Nothing is appended for the d shared frames.
C12_DiffFromSharedDepth ==
    Incremented =>
        LET d == SharedDepth(op.prev_frames, Sample.frames)
        IN  /\ Pushed = PushedMetadata \o PushedBeginEnd
            /\ Len(PushedMetadata) <= 1
            /\ MapSeq(PushedBeginEnd, Shape)
                   = Shapes("E", SubSeq(op.prev_frames, 1, Len(op.prev_frames) - d))
                       \o Shapes("B", Rev(SubSeq(Sample.frames, 1,
                                                 Len(Sample.frames) - d)))

\* C12 witness: of two open frames the outer one is kept, the inner one is
\* replaced by another
C12_Witness ==
    /\ SeenBefore
    /\ Len(op.prev_frames) = 2
    /\ Len(Sample.frames) = 2
    /\ SharedDepth(op.prev_frames, Sample.frames) = 1

----------------------------------------------------------------------------
(* The End events write synthesizes *)

\* The objects of the latest output that follow the stored log
Synthesized == SubSeq(Output, Len(events) + 1, Len(Output))

\* The synthesized objects that carry the remapped id of thread_id, in order
SynthesizedOf(thread_id) ==
    LET Mine(j) == j.tid = JsonNumber(thread_ids[thread_id])
    IN  SelectSeq(Synthesized, Mine)

RECURSIVE OpenFrames(_)
\* The number of frames of the stored samples of the threads in S
OpenFrames(S) ==
    IF S = {} THEN 0
    ELSE LET t == CHOOSE x \in S : TRUE
         IN  Len(prev_traces[t].frames) + OpenFrames(S \ {t})

\* C13: the sequence write outputs is the stored event log, unchanged and in
\* its order, followed by synthesized End events: exactly one End per frame
\* of every sample in the previous-sample map (as many as there are open
\* frames), each thread's Ends leaf to root, all carrying one timestamp, the
\* elapsed time at the write call, which is not less than the timestamp of
\* any stored event.
C13_LogThenClosingEnds ==
    Written =>
        /\ Len(Output) = Len(events) + OpenFrames(DOMAIN prev_traces)
        /\ \A i \in DOMAIN events : Output[i] = SerializeEvent(events[i])
        /\ \A i \in DOMAIN Synthesized :
               /\ IsEndJson(Synthesized[i])
               /\ Synthesized[i].ts = JsonNumber(elapsed)
               /\ \E t \in DOMAIN prev_traces :
                      /\ Synthesized[i].tid = JsonNumber(thread_ids[t])
                      /\ Synthesized[i].pid = JsonNumber(prev_traces[t].pid)
        /\ \A t \in DOMAIN prev_traces :
               MapSeq(SynthesizedOf(t), OutShape)
                   = MapSeq(Shapes("E", prev_traces[t].frames), JsonShape)
        /\ \A i \in DOMAIN events : events[i].ts <= elapsed

\* C13 witness: a write that closed two open frames of a thread, at a later
\* time than a stored event
C13_Witness ==
    /\ Written
    /\ \E t \in DOMAIN prev_traces :
           /\ Len(prev_traces[t].frames) = 2
           /\ ~FrameEqual(prev_traces[t].frames[1], prev_traces[t].frames[2])
    /\ \E i \in DOMAIN events : events[i].ph = "B" /\ events[i].ts < elapsed

\* A write that closed open frames of two threads
C13_WitnessTwoThreads ==
    /\ Written
    /\ Cardinality({ t \in DOMAIN prev_traces : prev_traces[t].frames # << >> }) = 2

----------------------------------------------------------------------------
(* Timestamps *)

\* C14: timestamps come from one clock shared by all threads and are
\* monotonic: all Begin and End events appended by one increment call carry
\* the same timestamp, the one reading of the clock the call made; over any
\* sequence of increment calls, for any threads, the timestamps of the Begin
\* and End events do not decrease in log order; every Metadata event carries
\* timestamp 0.
C14_OneMonotonicClock ==
    /\ Incremented =>
           \A i \in DOMAIN PushedBeginEnd : PushedBeginEnd[i].ts = elapsed
    /\ \A i, j \in DOMAIN events :
           (i < j /\ IsBeginEnd(events[i]) /\ IsBeginEnd(events[j]))
               => events[i].ts <= events[j].ts
    /\ \A i \in DOMAIN events : events[i].ph = "M" => events[i].ts = 0

\* C14 witness: an increment that pushed an End and a Begin, later than an
\* earlier call pushed a Begin
C14_Witness ==
    /\ Incremented
    /\ PushedEnds # << >>
    /\ PushedBegins # << >>
    /\ \E i \in 1..op.first : events[i].ph = "B" /\ events[i].ts < elapsed

\* A Metadata event of one thread that follows a later-stamped Begin of
\* another
C14_WitnessMetadataLater ==
    \E i, j \in DOMAIN events :
        /\ i < j
        /\ events[i].ph = "B" /\ events[i].ts > 0
        /\ events[j].ph = "M" /\ events[j].tid # events[i].tid

----------------------------------------------------------------------------
(* The outcome of increment *)

\* C15: increment has no error outcome: for every sample (of a first-seen or
\* an already-seen thread, with or without frames, with or without a previous
\* stack) it returns success; a thread without a previous stack is treated as
\* one with an empty stack, so every frame of the sample is Begun, root to
\* leaf, and nothing is Ended; and on return the stored previous sample of
\* the thread is the sample that was passed in.
C15_IncrementAlwaysSucceeds ==
    Incremented =>
        /\ op.result = "Ok"
        /\ ~SeenBefore =>
               /\ op.prev_frames = << >>
               /\ MapSeq(PushedBeginEnd, Shape) = Shapes("B", Rev(Sample.frames))
        /\ Sample.thread_id \in DOMAIN prev_traces
        /\ prev_traces[Sample.thread_id] = Sample

\* C15 witness: a first-seen thread passed with two frames
C15_Witness ==
    /\ Incremented
    /\ ~SeenBefore
    /\ Len(Sample.frames) = 2
    /\ op.result = "Ok"

\* A thread stored under one name and pid was passed under others, without
\* frames
C15_WitnessOtherHeader ==
    /\ SeenBefore
    /\ Sample.frames = << >>
    /\ op.prev_frames # << >>
    /\ \E i \in MetadataOf(thread_ids[Sample.thread_id]) :
           events[i].pid # Sample.pid

----------------------------------------------------------------------------
(* The outcome of write *)

\* What a successful write hands to the sink, computed from the stored state
\* and the time of the call
CompleteOutput == << to_string(write_events(elapsed)), "\n" >>

\* The latest write returned Ok exactly when the sink accepted the whole
\* array and the newline that ends it; whatever the outcome, the sink was
\* handed each piece at most once, in order
OkIffComplete ==
    op.name = "write" =>
        /\ op.result \in {"Ok", "Err"}
        /\ op.result = "Ok" <=> op.w = CompleteOutput
        /\ op.w = SubSeq(CompleteOutput, 1, Len(op.w))

\* A call of write that returns Err leaves the engine state as it was
FailedWriteIsReadOnly ==
    WriteFailed' => UNCHANGED <<events, prev_traces, thread_ids, show_linenumbers>>

C16_WitnessNothingHanded ==
    /\ WriteFailed
    /\ op.w = << >>
    /\ events # << >>

----------------------------------------------------------------------------
(* The stored log and the stored samples *)

\* The brackets of a thread in the stored log, keyed by what the engine
\* compares: name, filename and, when show_linenumbers is on, line
FrameBracket(e) ==
    [ begin |-> e.ph = "B", key |-> <<e.name, e.args.filename, e.args.line>>,
      ts |-> e.ts ]

\* What an event of the log shows of frame
FrameKey(frame) ==
    << frame.name, frame.filename,
       IF show_linenumbers THEN Some(frame.line) ELSE None >>

\* The Begins carrying tid that no End has closed, first-opened first
OpenBegins(tid) == Replay(MapSeq(OfTid(events, tid), FrameBracket), 1, << >>).open

\* C17: in every state reachable by increment calls, for each thread the
\* Begin events of the log not yet closed by an End, read from first-opened
\* to last-opened, correspond frame by frame (equal under the engine's frame
\* equality, as many) to the stored previous sample of the thread read from
\* outermost to innermost; a thread with no stored sample has no open Begin.
C17_OpenBeginsAreStoredFrames ==
    /\ \A t \in DOMAIN prev_traces :
           /\ t \in DOMAIN thread_ids
           /\ LET open == OpenBegins(thread_ids[t])
                  frames == prev_traces[t].frames
              IN  /\ Len(open) = Len(frames)
                  /\ \A d \in 1..Len(frames) :
                         open[d].key = FrameKey(AtDepth(frames, d))
    /\ \A tid \in Tids(events) :
           (\A t \in DOMAIN prev_traces : thread_ids[t] # tid)
               => OpenBegins(tid) = << >>

\* C17 witness: the one open frame of a thread was replaced by another frame,
\* which is now its one open Begin
C17_Witness ==
    /\ SeenBefore
    /\ Len(op.prev_frames) = 1
    /\ Len(Sample.frames) = 1
    /\ ~FrameEqual(op.prev_frames[1], Sample.frames[1])
    /\ Len(OpenBegins(thread_ids[Sample.thread_id])) = 1

\* Two open frames of one thread, stored while another thread has a sample
C17_WitnessTwoThreads ==
    /\ Cardinality(DOMAIN prev_traces) = 2
    /\ \E t \in DOMAIN prev_traces :
           /\ Len(prev_traces[t].frames) = 2
           /\ Len(OpenBegins(thread_ids[t])) = 2

----------------------------------------------------------------------------
(* Threads do not interfere *)

\* The stored previous stack of thread_id, none counting as empty
StoredFrames(thread_id) ==
    IF thread_id \in DOMAIN prev_traces THEN prev_traces[thread_id].frames ELSE << >>

\* One increment, for thread T: every other thread keeps its stored sample
\* and its remapped id, the log is only extended, and the previous stack the
\* call worked from is the one stored for T
IncrementIsLocal ==
    Incremented' =>
        LET T == Sample'.thread_id
        IN  /\ DOMAIN prev_traces' = DOMAIN prev_traces \cup {T}
            /\ DOMAIN thread_ids' = DOMAIN thread_ids \cup {T}
            /\ \A t \in DOMAIN prev_traces \ {T} : prev_traces'[t] = prev_traces[t]
            /\ \A t \in DOMAIN thread_ids : thread_ids'[t] = thread_ids[t]
            /\ op'.first = Len(events)
            /\ SubSeq(events', 1, Len(events)) = events
            /\ op'.prev_frames = StoredFrames(T)

\* The events the latest increment pushed all carry the remapped id of its
\* thread, and the Begin and End events among them are fixed by the previous
\* stack of that thread and the sample passed, whatever is stored for other
\* threads
PushedForOwnThread ==
    Incremented =>
        LET P == op.prev_frames
            C == Sample.frames
            d == SharedDepth(P, C)
        IN  /\ \A i \in DOMAIN Pushed : Pushed[i].tid = thread_ids[Sample.thread_id]
            /\ MapSeq(PushedBeginEnd, Shape)
                   = Shapes("E", SubSeq(P, 1, Len(P) - d))
                         \o Shapes("B", Rev(SubSeq(C, 1, Len(C) - d)))

\* C18: an increment for thread T leaves the stored previous sample and the
\* remapped id of every other thread unchanged and appends only events whose
\* tid is T's remapped id; so the Begin and End events of T in the log, step
\* by step the diff of T's stored sample and T's next sample, depend only on
\* the order of T's own samples, whatever samples of other threads come
\* between them.
C18_ThreadsAreIndependent == []PushedForOwnThread /\ [][IncrementIsLocal]_vars

\* C18 witness: a thread already recorded was passed a frame while another
\* thread had a frame open
C18_Witness ==
    /\ SeenBefore
    /\ PushedBegins # << >>
    /\ \E u \in DOMAIN prev_traces :
           u # Sample.thread_id /\ prev_traces[u].frames # << >>

----------------------------------------------------------------------------
(* Metadata comes first *)

\* C19: in the event log the Metadata event of a thread precedes every Begin
\* and every End event that carries the thread's remapped tid: no Begin or
\* End of a tid is ever appended before the Metadata event of that tid.
C19_MetadataPrecedesBeginEnd ==
    \A j \in DOMAIN events :
        IsBeginEnd(events[j]) =>
            \E i \in 1..(j - 1) :
                events[i].ph = "M" /\ events[i].tid = events[j].tid

\* C19 witness: the first increment of a second thread pushed its Metadata
\* event and a Begin, after events of the first thread
C19_Witness ==
    /\ Incremented
    /\ ~SeenBefore
    /\ op.first > 0
    /\ PushedBegins # << >>
    /\ Pushed[1].ph = "M"

----------------------------------------------------------------------------
(* The lookups of the thread-id map *)

\* C20: in every reachable state each thread_id that is a key of the
\* previous-sample map is a key of the thread-id map, and so is the thread_id
\* of the sample stored under it and of the sample an increment was passed:
\* the unchecked lookup thread_ids[trace.thread_id] that builds an event, in
\* increment and in write, always finds an entry.
C20_LookupsNeverMiss ==
    /\ DOMAIN prev_traces \subseteq DOMAIN thread_ids
    /\ \A t \in DOMAIN prev_traces : prev_traces[t].thread_id \in DOMAIN thread_ids
    /\ Incremented => Sample.thread_id \in DOMAIN thread_ids
    /\ \A i \in DOMAIN events : \E t \in DOMAIN thread_ids : events[i].tid = thread_ids[t]

\* C20 witness: a write looked up the remapped ids of two threads with open
\* frames
C20_Witness ==
    /\ Written
    /\ Cardinality(DOMAIN prev_traces) = 2
    /\ \A t \in DOMAIN prev_traces : prev_traces[t].frames # << >>
    /\ Len(Output) = Len(events) + 2

====
